---- MODULE Spec2Model ----
(***************************************************************************)
(* Receding-horizon controller of safe-mpc (src/src/safe_mpc/abstract.py,  *)
(* class AbstractController): the guess / warm-start state machine driven  *)
(* by solve(), provideControl(), setGuess() and resetHorizon() (Spec);    *)
(* the compilation of the obstacle and safety-margin constraints and the   *)
(* attachment of the safety filter (SpecBuild); and the pure checks of the *)
(* models, the controller and SimDynamics (SpecQuery).                     *)
(*                                                                         *)
(* A numpy array of shape (n, nx) or (n, nu) is a sequence of n rows; a    *)
(* row is abstracted to one value of Val (all rows of one array have the   *)
(* same width, and no operation of the controller looks inside a row).     *)
(* Python's 0-based row i is element i+1 of the sequence.                  *)
(***************************************************************************)
EXTENDS Integers, Sequences, FiniteSets, TLC

\* ------------------------------------------------------------- bounds ----
MaxN == 3          \* largest horizon length explored
MaxSeed == 1       \* trajectories handed in by the solver / the caller
MaxFails == 2      \* cap of the failure counter
MaxAbs == 4        \* largest magnitude of a state / control component checked
MaxObs == 2        \* longest list of obstacle descriptors
MaxCalls == 3      \* calls of setNNmodel / terminalConstraint / runningConstraint

\* a row of an array is one of three values; trajectory k is a rotation
Val == {0, 1, 2}
NumVal == Cardinality(Val)
Seeds == 0 .. MaxSeed

\* acados return codes explored: 0 success, 4 QP failure
StatusSet == {0, 4}

VARIABLES
    N,            \* self.N
    x_guess,      \* self.x_guess
    u_guess,      \* self.u_guess
    x_temp,       \* self.x_temp
    u_temp,       \* self.u_temp
    fails,        \* self.fails
    last_status,  \* self.last_status
    ocp_name,     \* self.ocp_name
    r,            \* self.r (<<>> while the attribute is not set)
    ocp_solver,   \* the external solver object self.ocp_solver
    pc,           \* the last call made on the controller
    err,          \* exception that ended the last call ("none" if it returned)
    arg,          \* argument of the last call (<<>> if it takes none)
    ret,          \* tuple returned by the last call (<<>> if it returned nothing)
    legal,        \* no resetHorizon(N) with N < 1 has been called so far
    pre,          \* the controller's fields when the current call / tick began
    build,        \* model and controller while the problem is set up (SpecBuild)
    query,        \* the last pure check evaluated and its inputs (SpecQuery)
    u_ret,        \* the array object the last provideControl() returned
    replay        \* the guess the current run of failure branches began from

vars == <<N, x_guess, u_guess, x_temp, u_temp, fails, last_status, ocp_name,
          r, ocp_solver, pc, err, arg, ret, legal, pre, build, query,
          u_ret, replay>>

\* the variables of the other two specifications
others == <<build, query>>
\* what the caller holds and has observed of the controller
ghosts == <<u_ret, replay>>
NoBuild ==
    [phase |-> "off", kind |-> "", nn |-> 0,
     obstacles |-> [none |-> TRUE, list |-> <<>>], obs_flag |-> FALSE,
     nl_con_0 |-> <<>>, nl_lb_0 |-> <<>>, nl_ub_0 |-> <<>>,
     nl_con |-> <<>>, nl_lb |-> <<>>, nl_ub |-> <<>>,
     nl_con_e |-> <<>>, nl_lb_e |-> <<>>, nl_ub_e |-> <<>>,
     idxsh_0 |-> <<>>, idxsh |-> <<>>, idxsh_e |-> <<>>,
     calls |-> 0, op |-> "none", in |-> <<>>, ret |-> <<>>, err |-> "none"]
NoQuery == [fn |-> "none", in |-> <<>>, ret |-> <<>>, err |-> "none"]

\* ------------------------------------------------------ numpy helpers ----
\* np.zeros((n, .)) ; a negative n raises in numpy and is never passed here
Zeros(n) == [i \in 1 .. n |-> 0]

\* np.roll(a, -1, axis=0)
RollRight(s) == [i \in 1 .. Len(s) |-> IF i > 1 THEN s[i - 1] ELSE s[Len(s)]]
Roll(s) == [i \in 1 .. Len(s) |-> IF i < Len(s) THEN s[i + 1] ELSE s[1]]

\* a[-1] = np.copy(a[-2]) ; only applied when a has at least two rows
KeepLast(s) == s
CopyLast(s) == [s EXCEPT ![Len(s)] = s[Len(s) - 1]]

\* a[:n]
Prefix(s, n) == SubSeq(s, 1, n)

\* a trajectory of n rows, as the caller or the solver may hand it in: the
\* k-th state trajectory TrajX(k, n + 1) comes with the k-th control
\* trajectory TrajU(k, n)
TrajX(k, n) == [i \in 1 .. n |-> (k + i) % NumVal]
TrajU(k, n) == [i \in 1 .. n |-> (k + i + 1) % NumVal]

\* ------------------------------------------------------------ ghosts ----
\* what a tick starts from
TickSnapshot == [N |-> N, x_guess |-> x_guess, u_guess |-> u_guess,
                 fails |-> fails, after |-> pc]

\* what a resize or a seeding of the guess starts from
Snapshot == [N |-> N, x_guess |-> x_guess, u_guess |-> u_guess,
             x_temp |-> x_temp, u_temp |-> u_temp, fails |-> fails,
             steps |-> ocp_solver.steps, r |-> r, after |-> pc]

\* u_ret: provideControl() returns row 0 of an array, which numpy hands out
\* as a view: `view` tells whether the array is the one self.u_temp still
\* names, `at` is the row when it was returned, `now` the row as it is.
NothingReturned == [returned |-> FALSE, view |-> FALSE, at |-> 0, now |-> 0]

Min(a, b) == IF a < b THEN a ELSE b

\* replay: k failure branches in a row (counted up to MaxN + 1, from where
\* on the guess no longer changes) have shifted the guess (X, U)
ReplayFrom(xg, ug) == [k |-> 0, X |-> xg, U |-> ug]
ReplayOnce == [replay EXCEPT !.k = Min(@ + 1, MaxN + 1)]

\* the caller is between two ticks (single-threaded, one call at a time);
\* a session is followed until a call raises or breaks the precondition
\* N >= 1 of resetHorizon
Idle ==
    /\ pc \in {"init", "provideControl", "resetHorizon", "setGuess"}
    /\ err = "none" /\ legal

\* -------------------------------------------------------- __init__ ------
Init ==
    /\ N \in 1 .. MaxN
    /\ ocp_name \in {"naive", "receding"}
    /\ r = <<>>
    /\ fails = 0
    /\ x_guess = Zeros(N + 1)
    /\ u_guess = Zeros(N)
    /\ x_temp = x_guess
    /\ u_temp = u_guess
    /\ last_status = 4
    /\ ocp_solver = [steps |-> N, status |-> <<>>, loaded |-> <<0, 0>>,
                     x |-> Zeros(N + 1), u |-> Zeros(N)]
    /\ pc = "init"
    /\ err = "none"
    /\ arg = <<>>
    /\ ret = <<>>
    /\ legal = TRUE
    /\ pre = [N |-> N, x_guess |-> x_guess, u_guess |-> u_guess,
              x_temp |-> x_temp, u_temp |-> u_temp, fails |-> 0, steps |-> N,
              r |-> <<>>, after |-> "init"]
    /\ build = NoBuild
    /\ query = NoQuery
    /\ u_ret = NothingReturned
    /\ replay = ReplayFrom(x_guess, u_guess)

\* ------------------------------------------------------------ solve -----
\* lines 909-917: the stages the loop manages to load before an index runs
\* off the guess. Stage i reads x_guess[i] and then u_guess[i].
LoadedX(xg, ug, n) ==
    IF n <= Len(xg) /\ n <= Len(ug) THEN Prefix(xg, n) \o <<xg[Len(xg)]>>
    ELSE IF Len(xg) <= Len(ug) THEN xg
    ELSE Prefix(xg, Len(ug) + 1)

LoadedU(xg, ug, n) ==
    IF n <= Len(xg) /\ n <= Len(ug) THEN Prefix(ug, n)
    ELSE IF Len(xg) <= Len(ug) THEN Prefix(ug, Len(xg))
    ELSE ug

LoadFails(xg, ug, n) == n > Len(xg) \/ n > Len(ug)

\* lines 923-926: rows 0..n-1 from the solver's stages, then the last row
SaveTempNoLast(buf, sol, n) ==
    [i \in 1 .. Len(buf) |-> IF i <= n THEN sol[i] ELSE buf[i]]
SaveTempX(buf, sol, n) ==
    [i \in 1 .. Len(buf) |->
        IF i = Len(buf) THEN sol[n + 1] ELSE IF i <= n THEN sol[i] ELSE buf[i]]

SaveTempU(buf, sol, n) ==
    [i \in 1 .. Len(buf) |-> IF i <= n THEN sol[i] ELSE buf[i]]

\* lines 922-926: where the solver's stages are stored; b holds the four
\* trajectory arrays of the controller
SaveIntoGuess(b, sol_x, sol_u, n) ==
    [b EXCEPT !.x_guess = SaveTempX(b.x_guess, sol_x, n),
              !.u_guess = SaveTempU(b.u_guess, sol_u, n)]
SaveSolution(b, sol_x, sol_u, n) ==
    [b EXCEPT !.x_temp = SaveTempX(b.x_temp, sol_x, n),
              !.u_temp = SaveTempU(b.u_temp, sol_u, n)]

Buffers == [x_guess |-> x_guess, u_guess |-> u_guess,
            x_temp |-> x_temp, u_temp |-> u_temp]

\* the first n rows of s, zero rows where s has none
Pad(s, n) == [i \in 1 .. n |-> IF i <= Len(s) THEN s[i] ELSE 0]

\* lines 903-917: the solver's iterate (x, u per stage) after
\* ocp_solver.reset() and the stage-wise set(i, 'x' / 'u', ...) calls, and
\* the number of state and control stages these calls set
SolverLoaded == [ocp_solver EXCEPT
                    !.status = <<>>,
                    !.loaded = <<Len(LoadedX(x_guess, u_guess, N)),
                                 Len(LoadedU(x_guess, u_guess, N))>>,
                    !.x = Pad(LoadedX(x_guess, u_guess, N), ocp_solver.steps + 1),
                    !.u = Pad(LoadedU(x_guess, u_guess, N), ocp_solver.steps)]

solve ==
    /\ Idle
    /\ \E x0 \in Val :
        \* x0 only reaches the solver (constraints_set), never the controller
        /\ arg' = <<>>
        /\ pre' = TickSnapshot
        /\ pc' = "solve"
        /\ IF LoadFails(x_guess, u_guess, N)
           THEN /\ err' = "IndexError"
                /\ ret' = <<>>
                /\ ocp_solver' = SolverLoaded
                /\ UNCHANGED <<x_guess, u_guess, x_temp, u_temp, last_status,
                               u_ret>>
           ELSE \E status \in StatusSet, k \in Seeds :
                /\ status # 0 => fails < MaxFails
                /\ err' = "none"
                /\ ret' = <<status>>
                /\ ocp_solver' = [SolverLoaded EXCEPT
                       !.status = <<status>>,
                       !.x = TrajX(k, N + 1), !.u = TrajU(k, N)]
                /\ LET b == SaveSolution(Buffers, ocp_solver'.x, ocp_solver'.u, N)
                   IN /\ x_temp' = b.x_temp
                      /\ u_temp' = b.u_temp
                      /\ x_guess' = b.x_guess
                      /\ u_guess' = b.u_guess
                /\ last_status' = status
                \* lines 923-925 write into the array self.u_temp names
                /\ u_ret' = IF u_ret.view
                            THEN [u_ret EXCEPT !.now = u_temp'[1]]
                            ELSE u_ret
    /\ UNCHANGED <<N, fails, ocp_name, r, legal, others, replay>>

\* ------------------------------------------------ step (fallback policy) -
\* The controller's step() is a stub in abstract.py; the concrete step of
\* the controller classes is modelled from the description of the tick:
\* after the solve attempt, a nonzero status increments the failure counter,
\* which never decreases, and provideControl() follows.
CountNoFailure(f, status) == f
CountFailure(f, status) == IF status # 0 THEN f + 1 ELSE f

step ==
    /\ pc = "solve" /\ err = "none"
    /\ fails' = CountFailure(fails, last_status)
    /\ pc' = "step"
    /\ UNCHANGED <<N, x_guess, u_guess, x_temp, u_temp, last_status, ocp_name,
                   r, ocp_solver, err, arg, ret, legal, pre, others, ghosts>>

\* --------------------------------------------------- provideControl -----
\* line 933
RollbackLate(f) == f > 1
Rollback(f) == f > 0

\* lines 934-942: the trajectory the branch takes the control and the next
\* guess from
SourceX(f, xg, xt) == IF Rollback(f) THEN xg ELSE xt
SourceU(f, ug, ut) == IF Rollback(f) THEN ug ELSE ut

provideControl ==
    /\ pc = "step" /\ err = "none"
    /\ pc' = "provideControl"
    /\ arg' = <<>>
    /\ LET sx == SourceX(fails, x_guess, x_temp)
           su == SourceU(fails, u_guess, u_temp)
       IN IF Len(su) = 0
          THEN \* u = ...[0] on an array without rows
               /\ err' = "IndexError"
               /\ ret' = <<>>
               /\ UNCHANGED <<x_guess, u_guess, ghosts>>
          ELSE IF Len(sx) < 2
          THEN \* x_guess[-2] does not exist; both guesses already rolled
               /\ err' = "IndexError"
               /\ x_guess' = Roll(sx)
               /\ u_guess' = Roll(su)
               /\ ret' = <<>>
               /\ UNCHANGED ghosts
          ELSE IF Len(su) < 2
          THEN \* u_guess[-2] does not exist; x_guess already completed
               /\ err' = "IndexError"
               /\ x_guess' = CopyLast(Roll(sx))
               /\ u_guess' = Roll(su)
               /\ ret' = <<>>
               /\ UNCHANGED ghosts
          ELSE /\ err' = "none"
               /\ x_guess' = CopyLast(Roll(sx))
               /\ u_guess' = CopyLast(Roll(su))
               /\ ret' = <<su[1], FALSE>>
               \* lines 934 / 939: u is row 0 of the array self.u_guess named
               \* before np.roll made a new one, or of the array self.u_temp
               \* goes on naming
               /\ u_ret' = [returned |-> TRUE, view |-> ~Rollback(fails),
                            at |-> su[1], now |-> su[1]]
               /\ replay' = IF Rollback(fails) THEN ReplayOnce
                            ELSE ReplayFrom(x_guess', u_guess')
    /\ UNCHANGED <<N, x_temp, u_temp, fails, last_status, ocp_name, r,
                   ocp_solver, legal, pre, others>>

\* --------------------------------------------------------- setGuess -----
\* The callers seed a guess shaped for the current horizon.
setGuess ==
    /\ Idle /\ N >= 1
    /\ \E k \in Seeds :
        /\ x_guess' = TrajX(k, N + 1)
        /\ u_guess' = TrajU(k, N)
        /\ arg' = <<k>>
    /\ replay' = ReplayFrom(x_guess', u_guess')
    /\ pre' = Snapshot
    /\ pc' = "setGuess"
    /\ ret' = <<>>
    /\ UNCHANGED <<N, x_temp, u_temp, fails, last_status, ocp_name, r,
                   ocp_solver, err, legal, others, u_ret>>

\* ----------------------------------------------------- resetHorizon -----
\* lines 987-988: the temporary buffers are allocated anew, n rows of zeros
TempAppended(old, n) == old \o Zeros(n)
TempAfterResize(old, n) == Zeros(n)

\* np.full(N, dt) raises ValueError for a negative N; what the external
\* solver does with an empty list of time steps is its own business: it
\* either raises or accepts it.
resetHorizon ==
    /\ Idle
    /\ \E Nnew \in (0 - 1) .. MaxN, accepts \in BOOLEAN :
        /\ (Nnew >= 1 => accepts) /\ (Nnew < 0 => ~accepts)
        /\ arg' = <<Nnew>>
        /\ legal' = (legal /\ Nnew >= 1)
        /\ N' = Nnew
        /\ r' = IF ocp_name = "receding" THEN <<Nnew>> ELSE r
        /\ IF Nnew < 0
           THEN /\ err' = "ValueError"
                /\ UNCHANGED <<x_temp, u_temp, ocp_solver, u_ret>>
           ELSE IF ~accepts
           THEN /\ err' = "SolverError"
                /\ UNCHANGED <<x_temp, u_temp, ocp_solver, u_ret>>
           ELSE /\ err' = "none"
                /\ ocp_solver' = [steps |-> Nnew, status |-> <<>>,
                                  loaded |-> <<0, 0>>,
                                  x |-> Zeros(Nnew + 1), u |-> Zeros(Nnew)]
                /\ x_temp' = TempAfterResize(x_temp, Nnew + 1)
                /\ u_temp' = TempAfterResize(u_temp, Nnew)
                \* self.u_temp names a new array from here on
                /\ u_ret' = [u_ret EXCEPT !.view = FALSE]
    /\ replay' = ReplayFrom(x_guess, u_guess)
    /\ pre' = Snapshot
    /\ pc' = "resetHorizon"
    /\ ret' = <<>>
    /\ UNCHANGED <<x_guess, u_guess, fails, last_status, ocp_name, others>>

Next == solve \/ step \/ provideControl \/ setGuess \/ resetHorizon

Spec == Init /\ [][Next]_vars

\* ================================================== the pure checks =====
\* The checks of the models read the model's attributes and their argument
\* only.  A state is x = <<q, v>> (nq = 1 joint), a control is u = <<tau>>;
\* quantities are integers.  A call is recorded in query as
\* [fn, in, ret, err]: ret is <<value>>, or <<>> when the call raised err.
\* Each behaviour evaluates one check on one input.
Comp == (0 - MaxAbs) .. MaxAbs
States == {<<q, v>> : q \in Comp, v \in Comp}
Controls == {<<tau>> : tau \in Comp}
Kinds == {"AdamModel", "TriplePendulumModel"}

\* joint limits and tolerances (attributes set by the constructors, params)
x_min == <<0 - 2, 0 - 2>>
x_max == <<2, 2>>
u_min == <<0 - 1>>
u_max == <<1>>
tol_x == 1
tol_tau == 1

\* the attributes a model object of each class has after __init__:
\* TriplePendulumModel.__init__ does not call AdamModel.__init__ and names
\* its torque limits tau_min / tau_max
Attrs(kind) ==
    IF kind = "AdamModel"
    THEN {"x_min", "x_max", "u_min", "u_max", "nn_func"}
    ELSE {"x_min", "x_max", "tau_min", "tau_max", "nn_func"}

Returned(v) == [ret |-> <<v>>, err |-> "none"]
Raised(e) == [ret |-> <<>>, err |-> e]

\* np.all(np.logical_and(v >= lo - tol, v <= hi + tol))
AllWithin(v, lo, hi, tol) ==
    \A i \in 1 .. Len(v) : v[i] >= lo[i] - tol /\ v[i] <= hi[i] + tol

\* lines 134-136 (inherited unchanged by TriplePendulumModel)
checkStateConstraints(kind, x) ==
    Returned(AllWithin(x, x_min, x_max, tol_x))

\* lines 138-140: reads self.u_min and self.u_max
checkControlConstraints(kind, u) ==
    IF {"u_min", "u_max"} \subseteq Attrs(kind)
    THEN Returned(AllWithin(u, u_min, u_max, tol_tau))
    ELSE Raised("AttributeError")

\* lines 142-143: `and` evaluates the control check only if the state
\* check is true
checkRunningConstraints(kind, x, u) ==
    IF checkStateConstraints(kind, x).ret = <<FALSE>>
    THEN Returned(FALSE)
    ELSE checkControlConstraints(kind, u)

Called(f, in, out) == [fn |-> f, in |-> in, ret |-> out.ret, err |-> out.err]

QueryState ==
    /\ query = NoQuery
    /\ \E kind \in Kinds, x \in States :
           /\ query' = Called("checkStateConstraints", [kind |-> kind, x |-> x],
                              checkStateConstraints(kind, x))
           /\ UNCHANGED <<N, x_guess, u_guess, x_temp, u_temp, fails, last_status,
                          ocp_name, r, ocp_solver, pc, err, arg, ret, legal, pre,
                          build, ghosts>>

QueryRunning ==
    /\ query = NoQuery
    /\ \E kind \in Kinds, x \in States, u \in Controls :
           /\ query' = Called("checkRunningConstraints",
                              [kind |-> kind, x |-> x, u |-> u],
                              checkRunningConstraints(kind, x, u))
           /\ UNCHANGED <<N, x_guess, u_guess, x_temp, u_temp, fails, last_status,
                          ocp_name, r, ocp_solver, pc, err, arg, ret, legal, pre,
                          build, ghosts>>

\* ------------------------------------------------- the safety margin -----
\* lines 149-155: the activations params.act may name
Acts == {"relu", "elu", "tanh", "gelu", "silu"}
\* values of the last linear layer of the network explored
PreAct == {0 - 2, 0 - 1, 0, 1, 2}
\* params.alpha, a percentage
Alphas == {0, 50, 100}

\* torch's activation functions at the points of PreAct, in hundredths
\* (ReLU, ELU, Tanh, GELU(approximate='tanh'), SiLU)
Activation(act, z) ==
    CASE act = "relu" -> IF z > 0 THEN 100 * z ELSE 0
      [] act = "elu"  -> IF z > 0 THEN 100 * z
                         ELSE [i \in {0 - 2, 0 - 1, 0} |->
                                  IF i = 0 THEN 0
                                  ELSE IF i = 0 - 1 THEN 0 - 63 ELSE 0 - 86][z]
      [] act = "tanh" -> [i \in PreAct |->
                                  CASE i = 0 - 2 -> 0 - 96 [] i = 0 - 1 -> 0 - 76
                                    [] i = 0 -> 0 [] i = 1 -> 76 [] i = 2 -> 96][z]
      [] act = "gelu" -> [i \in PreAct |->
                                  CASE i = 0 - 2 -> 0 - 5 [] i = 0 - 1 -> 0 - 16
                                    [] i = 0 -> 0 [] i = 1 -> 84 [] i = 2 -> 195][z]
      [] act = "silu" -> [i \in PreAct |->
                                  CASE i = 0 - 2 -> 0 - 24 [] i = 0 - 1 -> 0 - 27
                                    [] i = 0 -> 0 [] i = 1 -> 73 [] i = 2 -> 176][z]

Abs(i) == IF i < 0 THEN 0 - i ELSE i

\* lines 159-162: ub = max(x_max[nq:]) * sqrt(nq) for tanh (nq = 1), else 1
OutputScale(act) == IF act = "tanh" THEN x_max[2] ELSE 1

\* NeuralNetwork.forward, lines 17-32: the activation follows the last
\* linear layer too, and the result is multiplied by ub (in hundredths)
NetOutput(act, z) == Activation(act, z) * OutputScale(act)

\* lines 171-173: vel_norm = norm_2(x[nq:]) with nq = 1 (eps neglected)
VelNorm(x) == Abs(x[2])

\* lines 182-183: nn_model = l4c_model(state) * (100 - p) / 100 - vel_norm,
\* here times 10000: hundredths of the network output times the percentage
Margin(act, z, alpha, x) ==
    NetOutput(act, z) * (100 - alpha) - 10000 * VelNorm(x)

QueryMargin ==
    /\ query = NoQuery
    /\ \E act \in Acts, z \in PreAct, alpha \in Alphas, x \in States :
           /\ query' = Called("nn_func",
                              [act |-> act, z |-> z, alpha |-> alpha, x |-> x],
                              Returned(Margin(act, z, alpha, x)))
           /\ UNCHANGED <<N, x_guess, u_guess, x_temp, u_temp, fails, last_status,
                          ocp_name, r, ocp_solver, pc, err, arg, ret, legal, pre,
                          build, ghosts>>

\* ----------------------------------------------------- checkCollision -----
\* an upper bound that is never reached (1e6 in the descriptors)
NoLimit == 1000000
tol_obs == 1
\* positions of the end effector, t_glob = jointToEE(x)
Points == {<<a, b, c>> : a \in 0 .. MaxAbs, b \in 0 .. MaxAbs, c \in 0 .. MaxAbs}
\* obstacle descriptors: name, bounds = (lower, upper), position (ball)
Descriptors ==
    {[name |-> "floor", bounds |-> b, position |-> <<0, 0, 0>>] :
        b \in {<<2, NoLimit>>, <<2, 3>>}}
    \cup {[name |-> "ball", bounds |-> b, position |-> <<0, 0, 0>>] :
        b \in {<<3, NoLimit>>, <<3, 6>>}}
ObstacleLists == UNION {[1 .. n -> Descriptors] : n \in 0 .. MaxObs}
\* the constructor's argument obstacles: None, or a list of descriptors
ObstacleArgs ==
    {[none |-> TRUE, list |-> <<>>]}
    \cup {[none |-> FALSE, list |-> l] : l \in ObstacleLists}

\* line 974: np.sum((t_glob.flatten() - obs['position']) ** 2)
SqDist(t, p) ==
    (t[1] - p[1]) * (t[1] - p[1]) + (t[2] - p[2]) * (t[2] - p[2])
        + (t[3] - p[3]) * (t[3] - p[3])

\* lines 970-977: the loop returns False at the first obstacle whose
\* quantity plus tol_obs is below bounds[0]; bounds[1] is not read
RECURSIVE CollisionLoop(_, _)
CollisionLoop(obs, t) ==
    IF obs = <<>> THEN TRUE
    ELSE LET o == Head(obs) IN
         IF o.name = "floor" /\ t[3] + tol_obs < o.bounds[1] THEN FALSE
         ELSE IF o.name = "ball"
                   /\ SqDist(t, o.position) + tol_obs < o.bounds[1] THEN FALSE
         ELSE CollisionLoop(Tail(obs), t)

\* lines 967-978
checkCollision(obstacles, obs_flag, t) ==
    IF ~obstacles.none /\ obs_flag
    THEN Returned(CollisionLoop(obstacles.list, t))
    ELSE Returned(TRUE)

QueryCollision ==
    /\ query = NoQuery
    /\ \E obstacles \in ObstacleArgs, obs_flag \in BOOLEAN, t \in Points :
           /\ query' = Called("checkCollision",
                              [obstacles |-> obstacles, obs_flag |-> obs_flag,
                               t_glob |-> t],
                              checkCollision(obstacles, obs_flag, t))
           /\ UNCHANGED <<N, x_guess, u_guess, x_temp, u_temp, fails, last_status,
                          ocp_name, r, ocp_solver, pc, err, arg, ret, legal, pre,
                          build, ghosts>>

\* ------------------------------------------- checkDynamicsConstraints -----
\* A trajectory handed to the rollout checker: n controls and n + 1 states,
\* one integer per row.
tol_dyn == 1
DynStates == 0 .. MaxN
DynControls == {0, 1}

\* lines 200-205: one step of the integrator, a function of (x, u) alone;
\* the integrator is external, a single integrator stands for it
simulate(x, u) == x + u

\* line 212: x_sim[i + 1] = self.simulate(x_sim[i], u[i])
SimStageOfGiven(x, x_sim, u, i) == simulate(x[i], u[i])
SimStage(x, x_sim, u, i) == simulate(x_sim[i], u[i])

\* lines 209-212: x_sim[0] = x[0], then the stages in order
RECURSIVE RolloutLoop(_, _, _)
RolloutLoop(x, x_sim, u) ==
    IF Len(x_sim) = Len(u) + 1 THEN x_sim
    ELSE RolloutLoop(x, Append(x_sim, SimStage(x, x_sim, u, Len(x_sim))), u)

\* the square of np.linalg.norm(a - b)
RECURSIVE SqNorm(_, _)
SqNorm(a, b) ==
    IF a = <<>> THEN 0
    ELSE (Head(a) - Head(b)) * (Head(a) - Head(b)) + SqNorm(Tail(a), Tail(b))

\* lines 207-215; norm < tol_dyn * sqrt(n + 1) compared by the squares
\* (both sides are non-negative)
checkDynamicsConstraints(x, u) ==
    LET n == Len(u)
        x_sim == RolloutLoop(x, <<x[1]>>, u)
    IN Returned(SqNorm(x, x_sim) < tol_dyn * tol_dyn * (n + 1))

\* the arrays x and u are only read: they are the same after the call
QueryDynamics ==
    /\ query = NoQuery
    /\ \E n \in 0 .. MaxN :
           \E x \in [1 .. n + 1 -> DynStates], u \in [1 .. n -> DynControls] :
               /\ query' = Called("checkDynamicsConstraints",
                                  [x |-> x, u |-> u, x_after |-> x, u_after |-> u],
                                  checkDynamicsConstraints(x, u))
               /\ UNCHANGED <<N, x_guess, u_guess, x_temp, u_temp, fails,
                              last_status, ocp_name, r, ocp_solver, pc, err, arg,
                              ret, legal, pre, build, ghosts>>

NextQuery ==
    QueryState \/ QueryRunning \/ QueryMargin \/ QueryCollision
        \/ QueryDynamics

\* the checks are evaluated beside a controller that is not running
InitQuery == Init /\ N = MaxN /\ ocp_name = "receding"

SpecQuery == InitQuery /\ [][NextQuery]_vars

\* ============================================ setting the problem up =====
\* build holds a model object and the controller being constructed on it:
\*   phase     "off", "model" (model constructed), "setup" (the controller's
\*             __init__ has compiled the obstacles and runs
\*             additionalSetting(), where the concrete controllers call
\*             terminalConstraint / runningConstraint), "built"
\*   nn        0 while nn_model, nn_func and l4c_model are None, else the
\*             number of times setNNmodel has assigned them
\*   nl_*      the nine lists of the nonlinear constraints
\*   idxsh_*   ocp.constraints.idxsh_0 / idxsh / idxsh_e (<<>> if unset)
\*   op, in, ret, err   the last call, as in query
\* An expression is [expr, p]: the height t_glob[2], the squared distance
\* dist_b to position p, the margin nn_model of attachment p[1], or None.
None == [expr |-> "None", p |-> <<>>]
Height == [expr |-> "t_glob[2]", p |-> <<>>]
DistB(o) == [expr |-> "dist_b", p |-> o.position]
NnModel(b) == IF b.nn = 0 THEN None ELSE [expr |-> "nn_model", p |-> <<b.nn>>]
tol_nn == 1

Did(b, op, in, out) ==
    [b EXCEPT !.op = op, !.in = in, !.ret = out.ret, !.err = out.err]

\* lines 52-127 and 217-655: the constructors leave the filter unset
newModel ==
    /\ build = NoBuild
    /\ \E kind \in Kinds :
           build' = Did([build EXCEPT !.phase = "model", !.kind = kind],
                        "newModel", <<>>, Returned(kind))
    /\ UNCHANGED <<N, x_guess, u_guess, x_temp, u_temp, fails, last_status,
                   ocp_name, r, ocp_solver, pc, err, arg, ret, legal, pre,
                   query, ghosts>>

\* lines 148-183 / 667-686: every call builds the network anew and assigns
\* l4c_model, nn_model and nn_func
Attach(b) == [b EXCEPT !.nn = @ + 1, !.calls = @ + 1]

setNNmodel ==
    /\ build.phase \in {"model", "setup"} /\ build.err = "none"
    /\ build.calls < MaxCalls
    /\ build' = Did(Attach(build), "setNNmodel", [nn |-> build.nn],
                    Returned(build.nn + 1))
    /\ UNCHANGED <<N, x_guess, u_guess, x_temp, u_temp, fails, last_status,
                   ocp_name, r, ocp_solver, pc, err, arg, ret, legal, pre,
                   query, ghosts>>

\* lines 145-146: self.nn_func(x, self.params.alpha) >= -self.params.tol_nn.
\* nn_func is None until setNNmodel; AdamModel.setNNmodel makes it a
\* function of (x, p), TriplePendulumModel.setNNmodel a function of (x)
\* alone, which a call with two arguments does not match.
\* The margin is in 1/10000, tol_nn in hundredths.
checkSafeConstraints(b, act, z, alpha, x) ==
    IF b.nn = 0 THEN Raised("TypeError")
    ELSE IF b.kind = "TriplePendulumModel" THEN Raised("RuntimeError")
    ELSE Returned(Margin(act, z, alpha, x) >= 0 - 100 * tol_nn)

\* explored on a model no controller has been built on yet
QuerySafe ==
    /\ build.phase = "model" /\ build.err = "none"
    /\ \E act \in Acts, z \in PreAct, alpha \in Alphas, v \in {0, 1} :
           build' = Did(build, "checkSafeConstraints",
                        [act |-> act, z |-> z, alpha |-> alpha, x |-> <<0, v>>,
                         nn |-> build.nn],
                        checkSafeConstraints(build, act, z, alpha, <<0, v>>))
    /\ UNCHANGED <<N, x_guess, u_guess, x_temp, u_temp, fails, last_status,
                   ocp_name, r, ocp_solver, pc, err, arg, ret, legal, pre,
                   query, ghosts>>

\* ------------------------------------- AbstractController.__init__ -----
AppendStage0(b, e, lo, hi) ==
    [b EXCEPT !.nl_con_0 = Append(@, e), !.nl_lb_0 = Append(@, lo),
              !.nl_ub_0 = Append(@, hi)]
AppendStage(b, e, lo, hi) ==
    [b EXCEPT !.nl_con = Append(@, e), !.nl_lb = Append(@, lo),
              !.nl_ub = Append(@, hi)]
AppendStageE(b, e, lo, hi) ==
    [b EXCEPT !.nl_con_e = Append(@, e), !.nl_lb_e = Append(@, lo),
              !.nl_ub_e = Append(@, hi)]
AppendAll(b, e, lo, hi) ==
    AppendStageE(AppendStage(AppendStage0(b, e, lo, hi), e, lo, hi), e, lo, hi)

\* lines 767-794: one obstacle; a name other than floor / ball adds nothing
CompileObstacleNoTerminal(b, o) ==
    IF o.name = "floor" THEN AppendAll(b, Height, o.bounds[1], o.bounds[2])
    ELSE IF o.name = "ball"
    THEN AppendStage(AppendStage0(b, DistB(o), o.bounds[1], o.bounds[2]),
                     DistB(o), o.bounds[1], o.bounds[2])
    ELSE b
CompileObstacle(b, o) ==
    IF o.name = "floor" THEN AppendAll(b, Height, o.bounds[1], o.bounds[2])
    ELSE IF o.name = "ball"
    THEN AppendAll(b, DistB(o), o.bounds[1], o.bounds[2])
    ELSE b

\* line 766: for obs in self.obstacles
RECURSIVE CompileObstacles(_, _)
CompileObstacles(b, obs) ==
    IF obs = <<>> THEN b
    ELSE CompileObstacles(CompileObstacle(b, Head(obs)), Tail(obs))

\* lines 690-794: the constructor up to the call of additionalSetting().
\* Line 752 reads self.model.u_min, which a TriplePendulumModel lacks.
construct ==
    /\ build.phase = "model" /\ build.err = "none"
    /\ \E obstacles \in ObstacleArgs, obs_flag \in BOOLEAN :
           LET b == [build EXCEPT !.obstacles = obstacles,
                                  !.obs_flag = obs_flag]
           IN build' =
                 IF ~({"u_min", "u_max"} \subseteq Attrs(build.kind))
                 THEN Did([b EXCEPT !.phase = "failed"], "__init__", <<>>,
                          Raised("AttributeError"))
                 ELSE IF ~obstacles.none /\ obs_flag
                 THEN Did([CompileObstacles(b, obstacles.list)
                              EXCEPT !.phase = "setup"],
                          "__init__", <<>>, Returned(0))
                 ELSE Did([b EXCEPT !.phase = "setup"], "__init__", <<>>,
                          Returned(0))
    /\ UNCHANGED <<N, x_guess, u_guess, x_temp, u_temp, fails, last_status,
                   ocp_name, r, ocp_solver, pc, err, arg, ret, legal, pre,
                   query, ghosts>>

\* c.shape[0]: every compiled expression is a 1 x 1 casadi expression,
\* None has no attribute shape
Rows(c) == 1
RECURSIVE SumRows(_)
SumRows(l) == IF l = <<>> THEN 0 ELSE Rows(Head(l)) + SumRows(Tail(l))

\* np.sum([c.shape[0] for c in l])
NumRows(l) ==
    IF \E i \in 1 .. Len(l) : l[i] = None
    THEN Raised("AttributeError")
    ELSE Returned(SumRows(l))

\* np.array([num_nl]) with num_nl taken before the append
SlackIndexLate(num) == <<num + 1>>
SlackIndex(num) == <<num>>

\* lines 850-869
terminalConstraint ==
    /\ build.phase = "setup" /\ build.err = "none"
    /\ build.calls < MaxCalls
    /\ \E soft \in BOOLEAN :
           LET num_nl_e == NumRows(build.nl_con_e)
               b1 == Attach(build)
               b2 == AppendStageE(b1, NnModel(b1), 0, NoLimit)
               b3 == IF soft
                     THEN [b2 EXCEPT !.idxsh_e = SlackIndex(num_nl_e.ret[1])]
                     ELSE b2
           IN build' =
                 IF num_nl_e.err # "none"
                 THEN Did(build, "terminalConstraint", [soft |-> soft],
                          num_nl_e)
                 ELSE Did(b3, "terminalConstraint", [soft |-> soft],
                          Returned(0))
    /\ UNCHANGED <<N, x_guess, u_guess, x_temp, u_temp, fails, last_status,
                   ocp_name, r, ocp_solver, pc, err, arg, ret, legal, pre,
                   query, ghosts>>

\* lines 871-899: the filter is supposed to be attached already; nn_model
\* is appended as it is
runningConstraint ==
    /\ build.phase = "setup" /\ build.err = "none"
    /\ build.calls < MaxCalls
    /\ \E soft \in BOOLEAN :
           LET num_nl == NumRows(build.nl_con)
               b1 == AppendStage([build EXCEPT !.calls = @ + 1],
                                 NnModel(build), 0, NoLimit)
               num_nl_0 == NumRows(b1.nl_con_0)
               b2 == AppendStage0(b1, NnModel(build), 0, NoLimit)
               b3 == IF soft
                     THEN [b2 EXCEPT !.idxsh = SlackIndex(num_nl.ret[1]),
                                     !.idxsh_0 = SlackIndex(num_nl_0.ret[1])]
                     ELSE b2
           IN build' =
                 IF num_nl.err # "none"
                 THEN Did(build, "runningConstraint", [soft |-> soft], num_nl)
                 ELSE IF num_nl_0.err # "none"
                 THEN Did(b1, "runningConstraint", [soft |-> soft], num_nl_0)
                 ELSE Did(b3, "runningConstraint", [soft |-> soft],
                          Returned(0))
    /\ UNCHANGED <<N, x_guess, u_guess, x_temp, u_temp, fails, last_status,
                   ocp_name, r, ocp_solver, pc, err, arg, ret, legal, pre,
                   query, ghosts>>

\* lines 797-845: the rest of the constructor stacks the three lists with
\* vertcat, which does not accept None, and builds the solver
finishInit ==
    /\ build.phase = "setup" /\ build.err = "none"
    /\ build' =
          IF \E l \in {build.nl_con_0, build.nl_con, build.nl_con_e} :
                \E i \in 1 .. Len(l) : l[i] = None
          THEN Did([build EXCEPT !.phase = "failed"], "__init__", <<>>,
                   Raised("NotImplementedError"))
          ELSE Did([build EXCEPT !.phase = "built"], "__init__", <<>>,
                   Returned(1))
    /\ UNCHANGED <<N, x_guess, u_guess, x_temp, u_temp, fails, last_status,
                   ocp_name, r, ocp_solver, pc, err, arg, ret, legal, pre,
                   query, ghosts>>

NextBuild ==
    newModel \/ setNNmodel \/ QuerySafe \/ construct \/ terminalConstraint
        \/ runningConstraint \/ finishInit

SpecBuild == InitQuery /\ [][NextBuild]_vars

\* ======================================================= properties =====
TypeOK ==
    /\ N \in (0 - 1) .. MaxN
    /\ fails \in 0 .. MaxFails
    /\ last_status \in StatusSet
    /\ Len(x_temp) = Len(u_temp) + 1

\* a trajectory shifted left by one stage, its last stage duplicated
ShiftDup(s) ==
    [i \in 1 .. Len(s) |-> IF i < Len(s) THEN s[i + 1] ELSE s[Len(s)]]

\* a tick (solve, failure bookkeeping, provideControl) has just ended
TickDone == pc = "provideControl"

\* the last two rows of an array are equal
LastTwoEqual(s) == Len(s) >= 2 /\ s[Len(s)] = s[Len(s) - 1]

\* C1 - Failure non-adoption: after a tick whose solve returned a nonzero
\* status, the guess is the pre-tick guess shifted left by one stage with
\* the last stage duplicated, whatever the temporary buffers hold.
FailureNonAdoption ==
    (TickDone /\ last_status # 0) =>
        /\ x_guess = ShiftDup(pre.x_guess)
        /\ u_guess = ShiftDup(pre.u_guess)

\* a failed tick whose solver output differs from the guess it leaves alone
FailureNonAdoptionWitness ==
    /\ TickDone /\ last_status # 0 /\ err = "none"
    /\ pre.fails = 0
    /\ x_guess # ShiftDup(x_temp)
    /\ u_guess # ShiftDup(u_temp)
    /\ x_guess # pre.x_guess

\* C2 - Success adoption: after every tick whose solve returned status 0,
\* also one that follows failed ticks, the guess is the freshly solved
\* trajectory shifted left by one stage with the last stage duplicated.
SuccessAdoption ==
    (TickDone /\ last_status = 0 /\ err = "none") =>
        /\ x_guess = ShiftDup(x_temp)
        /\ u_guess = ShiftDup(u_temp)

\* C3 - The control returned for a tick is the first stage of the
\* trajectory selected by that tick's status: u_guess[0] of the pre-tick
\* guess on a nonzero status, u_temp[0] on status 0.
ControlByStatus ==
    (TickDone /\ err = "none") =>
        ret[1] = (IF last_status # 0 THEN pre.u_guess[1] ELSE u_temp[1])

\* C4 - A control exists on every tick: for every horizon N >= 1, every
\* status and every guess, provideControl() completes and returns a control.
ControlAlwaysExists ==
    (TickDone /\ N >= 1) => (err = "none" /\ Len(ret) = 2)

TempMirrorsSolver ==
    (pc = "solve" /\ err = "none") =>
        /\ \A i \in 1 .. N :
              x_temp[i] = ocp_solver.x[i] /\ u_temp[i] = ocp_solver.u[i]
        /\ x_temp[Len(x_temp)] = ocp_solver.x[N + 1]
        /\ ret = <<last_status>>
        /\ ocp_solver.status = ret

\* a failed solve, after an earlier failed tick, that filled every row of
\* the temporary buffers
TempMirrorsSolverWitness ==
    /\ pc = "solve" /\ err = "none" /\ last_status # 0 /\ N >= 2
    /\ fails >= 1
    /\ x_temp = ocp_solver.x /\ u_temp = ocp_solver.u
    /\ x_temp # Zeros(N + 1) /\ u_temp # Zeros(N)

\* C8 - Non-convergence is not an error of solve(): whenever the external
\* solver returned a nonzero status, solve(x0) returned that status without
\* raising and left x_guess, u_guess and N as they were.
NonConvergenceReturned ==
    (pc = "solve" /\ ocp_solver.status # <<>> /\ ocp_solver.status # <<0>>) =>
        /\ err = "none"
        /\ ret = ocp_solver.status
        /\ x_guess = pre.x_guess /\ u_guess = pre.u_guess /\ N = pre.N

\* a failed solve on a seeded guess that the solver's output differs from
NonConvergenceReturnedWitness ==
    /\ pc = "solve" /\ ret = <<4>> /\ N >= 2
    /\ x_guess # Zeros(N + 1)
    /\ Prefix(x_guess, N) # Prefix(ocp_solver.x, N)
    /\ u_guess # ocp_solver.u

\* C9 - resetHorizon(N_new) with N_new < 1 is rejected before any state is
\* mutated: N, x_temp, u_temp, the guess and the solver's time steps are the
\* same after the call as before it.
InvalidResizeRejected ==
    (pc = "resetHorizon" /\ arg[1] < 1) =>
        /\ N = pre.N
        /\ x_temp = pre.x_temp /\ u_temp = pre.u_temp
        /\ x_guess = pre.x_guess /\ u_guess = pre.u_guess
        /\ ocp_solver.steps = pre.steps

\* C10 - Guess shape invariant: in every state reached by solve,
\* provideControl and resetHorizon with N_new >= 1, x_guess has N+1 stages
\* and u_guess has N stages.
GuessShape ==
    legal => (Len(x_guess) = N + 1 /\ Len(u_guess) = N)

\* C11 - The horizon may shrink or grow: after resetHorizon(N_new) with
\* N_new >= 1, smaller or larger than the horizon before, the next solve
\* completes, having loaded a guess state for each stage 0..N_new and a
\* guess control for each stage 0..N_new-1, and having filled temporary
\* buffers of N_new+1 states and N_new controls.
SolveAfterResize ==
    (pc = "solve" /\ pre.after = "resetHorizon") =>
        /\ err = "none"
        /\ ocp_solver.loaded = <<N + 1, N>>
        /\ Len(x_temp) = N + 1 /\ Len(u_temp) = N

\* C12 - Horizon resize idempotence: a second resetHorizon(N) right after a
\* first one with the same N leaves the controller as the first call left
\* it, and no resetHorizon call alters x_guess or u_guess.
ResizeIdempotent ==
    (pc = "resetHorizon" /\ err = "none") =>
        /\ x_guess = pre.x_guess /\ u_guess = pre.u_guess
        /\ (pre.after = "resetHorizon" /\ arg = <<pre.N>>) =>
              /\ N = pre.N /\ r = pre.r /\ fails = pre.fails
              /\ x_temp = pre.x_temp /\ u_temp = pre.u_temp
              /\ Len(x_temp) = N + 1 /\ Len(u_temp) = N
              /\ ocp_solver.steps = pre.steps

\* a second resize to the same horizon, on a controller whose guess is not
\* all zero and whose horizon the first resize had changed
ResizeIdempotentWitness ==
    /\ pc = "resetHorizon" /\ err = "none"
    /\ pre.after = "resetHorizon" /\ arg = <<pre.N>>
    /\ Len(x_guess) # N + 1
    /\ x_guess # Zeros(Len(x_guess))
    /\ ocp_name = "receding"

\* C13 - checkStateConstraints(x) is true iff every component of x lies in
\* [x_min - tol_x, x_max + tol_x] (true strictly inside the bounds, false
\* when a component exceeds a bound by more than tol_x), and
\* checkRunningConstraints(x, u) returns the conjunction of this with the
\* same test of u over [u_min - tol_tau, u_max + tol_tau], on either model.
InBox(v, lo, hi, tol) ==
    \A i \in 1 .. Len(v) : lo[i] - tol <= v[i] /\ v[i] <= hi[i] + tol

BoundsPredicates ==
    /\ query.fn = "checkStateConstraints" =>
          /\ query.err = "none"
          /\ query.ret = <<InBox(query.in.x, x_min, x_max, tol_x)>>
          /\ InBox(query.in.x, x_min, x_max, 0) => query.ret = <<TRUE>>
    /\ query.fn = "checkRunningConstraints" =>
          /\ query.err = "none"
          /\ query.ret = <<InBox(query.in.x, x_min, x_max, tol_x)
                            /\ InBox(query.in.u, u_min, u_max, tol_tau)>>

\* C16 - Safety margin monotonicity: for a fixed state x and alpha1 < alpha2
\* in [0, 100], h(x, alpha2) <= h(x, alpha1), whatever value the network
\* output takes under the supported activations.
MarginMonotone ==
    query.fn = "nn_func" =>
        \A alpha2 \in Alphas :
            alpha2 > query.in.alpha =>
                Margin(query.in.act, query.in.z, alpha2, query.in.x)
                    <= query.ret[1]

\* C18 - checkCollision respects the obstacle bounds: with obstacles
\* enabled it returns false whenever the monitored quantity of some obstacle
\* (height for floor, squared distance to the centre for ball) is outside
\* that obstacle's (lower, upper) bounds by more than tol_obs, and true when
\* the quantity of every obstacle is within its bounds.
Monitored(o, t) ==
    IF o.name = "floor" THEN t[3]
    ELSE (t[1] - o.position[1]) * (t[1] - o.position[1])
         + (t[2] - o.position[2]) * (t[2] - o.position[2])
         + (t[3] - o.position[3]) * (t[3] - o.position[3])

CollisionRespectsBounds ==
    (/\ query.fn = "checkCollision"
     /\ ~query.in.obstacles.none /\ query.in.obs_flag) =>
        LET obs == query.in.obstacles.list
            t == query.in.t_glob
        IN /\ query.err = "none"
           /\ (\E k \in 1 .. Len(obs) :
                  \/ Monitored(obs[k], t) < obs[k].bounds[1] - tol_obs
                  \/ Monitored(obs[k], t) > obs[k].bounds[2] + tol_obs)
                 => query.ret = <<FALSE>>
           /\ (\A k \in 1 .. Len(obs) :
                  /\ obs[k].bounds[1] <= Monitored(obs[k], t)
                  /\ Monitored(obs[k], t) <= obs[k].bounds[2])
                 => query.ret = <<TRUE>>

\* C19 - The rollout checker accepts a trajectory (x, u) with n controls
\* iff the norm of the difference between x and the trajectory re-simulated
\* stage by stage from x[0] with u is below tol_dyn * sqrt(n + 1); a
\* trajectory produced by integrating the controls from x[0] is accepted;
\* and x, u and the controller's guess are unchanged.
RECURSIVE SumTo(_, _)
SumTo(u, k) == IF k = 0 THEN 0 ELSE u[k] + SumTo(u, k - 1)

\* the trajectory of the integrator from x0 under u, stage i being x0 plus
\* the controls applied before it
Integrated(x0, u) == [i \in 1 .. Len(u) + 1 |-> x0 + SumTo(u, i - 1)]

RECURSIVE SqDeviation(_, _, _)
SqDeviation(a, b, k) ==
    IF k = 0 THEN 0
    ELSE (a[k] - b[k]) * (a[k] - b[k]) + SqDeviation(a, b, k - 1)

RolloutVerdict ==
    query.fn = "checkDynamicsConstraints" =>
        LET x == query.in.x
            u == query.in.u
            ref == Integrated(x[1], u)
        IN /\ query.err = "none"
           /\ query.ret = <<SqDeviation(x, ref, Len(x))
                              < tol_dyn * tol_dyn * (Len(u) + 1)>>
           /\ x = ref => query.ret = <<TRUE>>
           /\ query.in.x_after = x /\ query.in.u_after = u
           /\ x_guess = Zeros(N + 1) /\ u_guess = Zeros(N)

\* an integrated trajectory of at least two moving stages is accepted
RolloutVerdictWitness ==
    /\ query.fn = "checkDynamicsConstraints"
    /\ Len(query.in.u) >= 2
    /\ query.in.u[1] = 1 /\ query.in.u[2] = 1
    /\ query.in.x = Integrated(query.in.x[1], query.in.u)
    /\ query.ret = <<TRUE>>

\* C14 - Querying viability before the safety filter is attached fails
\* fast: checkSafeConstraints on a model on which setNNmodel has not been
\* called ends in an error and returns no boolean; after setNNmodel it
\* returns true iff margin(x, alpha) >= -tol_nn, for both model kinds.
SafeQueryContract ==
    build.op = "checkSafeConstraints" =>
        /\ build.in.nn = 0 => (build.err # "none" /\ build.ret = <<>>)
        /\ build.in.nn > 0 =>
              /\ build.err = "none"
              /\ build.ret = <<Margin(build.in.act, build.in.z, build.in.alpha,
                                      build.in.x) >= 0 - 100 * tol_nn>>

\* C15 - The safety filter is attached at most once per model: after a
\* first attachment (by setNNmodel or through terminalConstraint) a further
\* attach attempt is rejected and nn_model / nn_func / l4c_model keep the
\* values of the first attachment.
AttachedOnce ==
    /\ build.nn <= 1
    /\ (build.op = "setNNmodel" /\ build.in.nn > 0) => build.err # "none"

\* C17 - Obstacle compilation keeps the three stage lists aligned: after
\* construction with a list of obstacle descriptors and obstacles enabled,
\* the k-th entry of nl_con_0, nl_con and nl_con_e and of the matching lb / ub
\* lists is the constraint and the (lower, upper) bounds of the k-th
\* descriptor, and each list has as many entries as there are descriptors.
ExprOf(o) ==
    IF o.name = "floor" THEN [expr |-> "t_glob[2]", p |-> <<>>]
    ELSE [expr |-> "dist_b", p |-> o.position]

ObstacleListsAligned ==
    (/\ build.op = "__init__" /\ build.err = "none"
     /\ ~build.obstacles.none /\ build.obs_flag) =>
        LET obs == build.obstacles.list IN
        /\ \A l \in {build.nl_con_0, build.nl_con, build.nl_con_e} :
              Len(l) >= Len(obs) /\ \A k \in 1 .. Len(obs) : l[k] = ExprOf(obs[k])
        /\ \A l \in {build.nl_lb_0, build.nl_lb, build.nl_lb_e} :
              Len(l) >= Len(obs) /\ \A k \in 1 .. Len(obs) : l[k] = obs[k].bounds[1]
        /\ \A l \in {build.nl_ub_0, build.nl_ub, build.nl_ub_e} :
              Len(l) >= Len(obs) /\ \A k \in 1 .. Len(obs) : l[k] = obs[k].bounds[2]
        /\ build.phase = "setup" =>
              /\ \A l \in {build.nl_con_0, build.nl_con, build.nl_con_e} :
                    Len(l) = Len(obs)
              /\ \A l \in {build.nl_lb_0, build.nl_lb, build.nl_lb_e,
                             build.nl_ub_0, build.nl_ub, build.nl_ub_e} :
                    Len(l) = Len(obs)

\* a floor followed by a ball with other bounds has been compiled
ObstacleListsAlignedWitness ==
    /\ build.op = "__init__" /\ build.err = "none" /\ build.phase = "setup"
    /\ ~build.obstacles.none /\ build.obs_flag
    /\ Len(build.obstacles.list) = 2
    /\ build.obstacles.list[1].name = "floor"
    /\ build.obstacles.list[2].name = "ball"
    /\ build.obstacles.list[1].bounds # build.obstacles.list[2].bounds
    /\ Len(build.nl_con_e) = 2

\* C20 - Slack index alignment: after terminalConstraint(soft=True) or
\* runningConstraint(soft=True), called after any number of obstacle
\* constraints and in any order, the slack index recorded for a stage type
\* equals the (0-based) position at which the safety-margin constraint was
\* appended in that stage type's list.
SlackIndexAligned ==
    /\ (/\ build.op = "terminalConstraint" /\ build.err = "none"
         /\ build.in.soft) =>
            /\ build.idxsh_e = <<Len(build.nl_con_e) - 1>>
            /\ build.nl_con_e[Len(build.nl_con_e)].expr = "nn_model"
    /\ (/\ build.op = "runningConstraint" /\ build.err = "none"
         /\ build.in.soft) =>
            /\ build.idxsh = <<Len(build.nl_con) - 1>>
            /\ build.idxsh_0 = <<Len(build.nl_con_0) - 1>>
            /\ build.nl_con[Len(build.nl_con)].expr \in {"nn_model", "None"}
            /\ build.nl_con_0[Len(build.nl_con_0)] = build.nl_con[Len(build.nl_con)]

\* a soft running constraint added after obstacles and a terminal
\* constraint: the two lists it extends are shorter than the terminal one
SlackIndexAlignedWitness ==
    /\ build.op = "runningConstraint" /\ build.err = "none" /\ build.in.soft
    /\ Len(build.obstacles.list) >= 1 /\ build.obs_flag
    /\ build.idxsh_e # <<>> /\ build.idxsh_e # build.idxsh
    /\ Len(build.nl_con_e) > Len(build.nl_con)
    /\ build.idxsh = <<Len(build.obstacles.list)>>

\* C21 - The control returned by provideControl() is a stable value: no
\* later operation on the controller (solve, provideControl, resetHorizon,
\* setGuess) changes the contents of the returned control vector.
ReturnedControlStable ==
    u_ret.returned => u_ret.now = u_ret.at

\* C22 - Replay under persistent failure: after k consecutive ticks taking
\* the failure branch of provideControl, starting from guess (X, U) with
\* N >= 2, x_guess[i] = X[min(i+k, N)] and u_guess[i] = U[min(i+k, N-1)],
\* the k-th control emitted was U[min(k-1, N-1)], and from k >= N on the
\* guess is constant and equal to the last stage of the original guess.
ReplayUnderFailure ==
    (/\ replay.k >= 1 /\ err = "none" /\ N >= 2
     /\ Len(replay.X) = N + 1 /\ Len(replay.U) = N) =>
        /\ Len(x_guess) = N + 1 /\ Len(u_guess) = N
        /\ \A i \in 0 .. N :
              x_guess[i + 1] = replay.X[Min(i + replay.k, N) + 1]
        /\ \A i \in 0 .. N - 1 :
              u_guess[i + 1] = replay.U[Min(i + replay.k, N - 1) + 1]
        /\ pc = "provideControl" =>
              ret = <<replay.U[Min(replay.k - 1, N - 1) + 1], FALSE>>
        /\ replay.k >= N =>
              /\ \A i \in 1 .. N + 1 : x_guess[i] = replay.X[N + 1]
              /\ \A i \in 1 .. N : u_guess[i] = replay.U[N]

\* the third failure branch in a row on a horizon of three stages, from a
\* guess whose rows differ: the guess has become constant
ReplayUnderFailureWitness ==
    /\ pc = "provideControl" /\ err = "none"
    /\ N = 3 /\ replay.k = 3
    /\ Len(replay.X) = N + 1 /\ Len(replay.U) = N
    /\ replay.U[1] # replay.U[2] /\ replay.U[2] # replay.U[3]
    /\ replay.X[2] # replay.X[N + 1] /\ replay.X[3] # replay.X[N + 1]
    /\ ret = <<replay.U[3], FALSE>>

====
